---- MODULE Spec2Model ----
(***************************************************************************)
(* HashMap<KeyType, ValueType, Hash> of src/HashTable.cpp: a hash table    *)
(* with separate chaining.  The (key, value) pairs live in a std::list     *)
(* (elements_); the bucket array (hash_table_) holds list iterators.       *)
(*                                                                         *)
(* A list node is modelled as a record [id, first, second]; id stands for  *)
(* the node's address, so a std::list iterator is an id.  Several HashMap  *)
(* objects (Tables) share one heap of nodes: an id is in use while some    *)
(* object's elements_ holds a node carrying it.                            *)
(*                                                                         *)
(* lastOp is a history variable: the operation that led to the state, with *)
(* what the call returned or threw.                                        *)
(***************************************************************************)
EXTENDS Integers, Sequences, FiniteSets

\* ---------------------------------------------------------------- bounds
\* the most entries a table is filled with
MaxSize == 3
\* the number of distinct keys inserted in the capacity scenario
ScenarioKeys == 5

\* the HashMap objects of a run, the keys used on one object, the keys used
\* where two objects interact, and the values
Tables == {1, 2}
Keys == {1, 2, 3, 4}
PairKeys == {1, 2}
Vals == {0, 1}

\* ------------------------------------------------------ program constants
kDefaultCapacity == 1
\* kPersentageOfCapacityToDecrease = 1.0 / 8.0, kept as its denominator
kDecreaseDenominator == 8
\* kPersentageOfCapacityToIncrease = 1.0 / 2.0, kept as its denominator
kIncreaseDenominator == 2
kDecreasingFactor == 2
kIncreasingFactor == 2
\* ValueType() for the value type int
DefaultValue == 0
\* the "not found" index of get_position
NotFound == -1
\* end(): the past-the-end iterator, no node's address
End == <<0, 0, 0>>

VARIABLES maps, lastOp, fault

vars == <<maps, lastOp, fault>>

\* ------------------------------------------------------------- the hasher
\* The injected hasher (a pure function of the key).  Keys 1, 3 and 4 share
\* a bucket at every capacity up to 8 (3 leaves it at 16, 4 at 32), key 2
\* shares it at capacities 1, 2, 4 and leaves it at 8; the other keys are
\* spread.
hash_(key) ==
    IF key = 1 THEN 1
    ELSE IF key = 2 THEN 5
    ELSE IF key = 3 THEN 9
    ELSE IF key = 4 THEN 17
    ELSE key + 2

\* ---------------------------------------------------------------- helpers
Ids(m) == {m.elements_[i].id : i \in 1..Len(m.elements_)}

HeapIds == UNION {Ids(maps[t]) : t \in Tables}

\* The node an iterator denotes: a node of m's own list, else a node of
\* another object's list.
Live(m, id) == id \in Ids(m) \/ id \in HeapIds

Deref(m, id) ==
    IF id \in Ids(m)
    THEN m.elements_[CHOOSE i \in 1..Len(m.elements_) : m.elements_[i].id = id]
    ELSE LET t == CHOOSE u \in Tables : id \in Ids(maps[u])
             es == maps[t].elements_
         IN es[CHOOSE i \in 1..Len(es) : es[i].id = id]

\* The address the allocator gives a new list node.  Addresses are only
\* ever compared for equality, so the allocator is fixed up to renaming: the
\* node object t makes for a key gets the lowest address not in use of the
\* block <<t, key, 0>>, <<t, key, 1>>, ...
FreshId(t, key, used) ==
    LET n == Cardinality(used)
    IN <<t, key, CHOOSE g \in 0..n :
                    <<t, key, g>> \notin used
                    /\ \A h \in 0..(g - 1) : <<t, key, h>> \in used>>

\* std::list copy construction by object t: the same pairs, in order, in
\* new nodes (the keys of a list are distinct).
CopyList(t, es, used) ==
    [i \in 1..Len(es) |->
        [id |-> FreshId(t, es[i].first, used),
         first |-> es[i].first, second |-> es[i].second]]

\* ------------------------------------------------------- private methods
\* hash_table_[hash] is an access out of the vector's range (a moved-from
\* object), or a stored iterator denotes no node: undefined behaviour.
Undefined(m, raw_hash) ==
    LET hash == raw_hash % m.capacity_
    IN \/ hash >= Len(m.hash_table_)
       \/ \E i \in 1..Len(m.hash_table_[hash + 1]) :
              ~Live(m, m.hash_table_[hash + 1][i])

\* the bucket scan that stops one slot before the bucket's end
get_position_skip_last(m, key, raw_hash) ==
    LET hash == raw_hash % m.capacity_
        bucket == m.hash_table_[hash + 1]
        hits == {i \in 1..(Len(bucket) - 1) : Deref(m, bucket[i]).first = key}
    IN [first |-> hash,
        second |-> IF hits = {} THEN NotFound
                   ELSE (CHOOSE i \in hits : \A j \in hits : i <= j) - 1]

get_position(m, key, raw_hash) ==
    LET hash == raw_hash % m.capacity_
        bucket == m.hash_table_[hash + 1]
        hits == {i \in 1..Len(bucket) : Deref(m, bucket[i]).first = key}
    IN [first |-> hash,
        second |-> IF hits = {} THEN NotFound
                   ELSE (CHOOSE i \in hits : \A j \in hits : i <= j) - 1]

\* rebuild with capacity_ written after the loop: the loop hashes modulo the
\* old capacity
rebuild_stale_capacity(m, new_capacity) ==
    [m EXCEPT
       !.hash_table_ =
           [h \in 1..new_capacity |->
               LET sel == SelectSeq(m.elements_,
                              LAMBDA e : hash_(e.first) % m.capacity_ = h - 1)
               IN [i \in 1..Len(sel) |-> sel[i].id]],
       !.capacity_ = new_capacity]

\* rebuild that moves every pair into a new list node
rebuild_reallocating(m, new_capacity) ==
    LET moved == [i \in 1..Len(m.elements_) |->
                     [m.elements_[i] EXCEPT !.id = <<@[1], @[2], @[3] + 1>>]]
    IN [m EXCEPT
          !.elements_ = moved,
          !.hash_table_ =
              [h \in 1..new_capacity |->
                  LET sel == SelectSeq(moved,
                                 LAMBDA e : hash_(e.first) % new_capacity = h - 1)
                  IN [i \in 1..Len(sel) |-> sel[i].id]],
          !.capacity_ = new_capacity]

rebuild(m, new_capacity) ==
    [m EXCEPT
       !.hash_table_ =
           [h \in 1..new_capacity |->
               LET sel == SelectSeq(m.elements_,
                              LAMBDA e : hash_(e.first) % new_capacity = h - 1)
               IN [i \in 1..Len(sel) |-> sel[i].id]],
       !.capacity_ = new_capacity]

\* the grow test with > for >=
NeedsIncrease_strict(size, capacity) == size * kIncreaseDenominator > capacity

\* the grow test against the whole capacity
NeedsIncrease_full(size, capacity) == size >= capacity

\* the grow test with the shrink test's fraction
NeedsIncrease_at_eighth(size, capacity) == size * kDecreaseDenominator >= capacity

\* size_ >= kPersentageOfCapacityToIncrease * capacity_
NeedsIncrease(size, capacity) == size * kIncreaseDenominator >= capacity

\* size_ <= kPersentageOfCapacityToDecrease * capacity_
\*     && capacity_ > kDefaultCapacity
NeedsDecrease(size, capacity) ==
    size * kDecreaseDenominator <= capacity /\ capacity > kDefaultCapacity

\* the threshold check made twice
rebuild_if_needed_twice(m) ==
    LET once(x) ==
            IF NeedsIncrease(x.size_, x.capacity_)
            THEN rebuild(x, x.capacity_ * kIncreasingFactor)
            ELSE IF NeedsDecrease(x.size_, x.capacity_)
            THEN rebuild(x, x.capacity_ \div kDecreasingFactor)
            ELSE x
    IN once(once(m))

rebuild_if_needed(m) ==
    IF NeedsIncrease(m.size_, m.capacity_)
    THEN rebuild(m, m.capacity_ * kIncreasingFactor)
    ELSE IF NeedsDecrease(m.size_, m.capacity_)
    THEN rebuild(m, m.capacity_ \div kDecreasingFactor)
    ELSE m

\* insert that assigns the value of a key already there
push_element_overwrite(m, key, value, id) ==
    LET p == get_position(m, key, hash_(key))
    IN IF p.second = NotFound
       THEN [m EXCEPT
               !.elements_ = Append(@, [id |-> id, first |-> key, second |-> value]),
               !.hash_table_[p.first + 1] = Append(@, id),
               !.size_ = @ + 1]
       ELSE [m EXCEPT
               !.elements_ =
                   [i \in 1..Len(@) |->
                       IF @[i].first = key THEN [@[i] EXCEPT !.second = value]
                       ELSE @[i]]]

\* insert that links the new node at the front of the list
push_element_front(m, key, value, id) ==
    LET p == get_position(m, key, hash_(key))
    IN IF p.second = NotFound
       THEN [m EXCEPT
               !.elements_ = <<[id |-> id, first |-> key, second |-> value]>> \o @,
               !.hash_table_[p.first + 1] = Append(@, id),
               !.size_ = @ + 1]
       ELSE m

\* add_element without its trailing rebuild_if_needed
push_element(m, key, value, id) ==
    LET p == get_position(m, key, hash_(key))
    IN IF p.second = NotFound
       THEN [m EXCEPT
               !.elements_ = Append(@, [id |-> id, first |-> key, second |-> value]),
               !.hash_table_[p.first + 1] = Append(@, id),
               !.size_ = @ + 1]
       ELSE m

add_element(m, key, value, id) == rebuild_if_needed(push_element(m, key, value, id))

\* std::swap(hash_table_[hash][ind], hash_table_[hash].back())
SwapWithBack(bucket, ind) ==
    [bucket EXCEPT ![ind + 1] = bucket[Len(bucket)],
                   ![Len(bucket)] = bucket[ind + 1]]

\* erase without the swap: the bucket's last iterator is erased and popped
pop_element_no_swap(m, key) ==
    LET p == get_position(m, key, hash_(key))
    IN IF p.second # NotFound
       THEN LET bucket == m.hash_table_[p.first + 1]
                victim == bucket[Len(bucket)]
            IN [m EXCEPT
                  !.elements_ = SelectSeq(@, LAMBDA e : e.id # victim),
                  !.hash_table_[p.first + 1] = SubSeq(bucket, 1, Len(bucket) - 1),
                  !.size_ = @ - 1]
       ELSE m

\* erase that fills the erased entry's place in the list with the list's
\* last entry
pop_element_store_swap(m, key) ==
    LET p == get_position(m, key, hash_(key))
    IN IF p.second # NotFound
       THEN LET swapped == SwapWithBack(m.hash_table_[p.first + 1], p.second)
                victim == swapped[Len(swapped)]
                es == m.elements_
                at_victim == CHOOSE i \in 1..Len(es) : es[i].id = victim
            IN [m EXCEPT
                  !.elements_ =
                      [i \in 1..(Len(es) - 1) |->
                          IF i = at_victim THEN es[Len(es)] ELSE es[i]],
                  !.hash_table_[p.first + 1] = SubSeq(swapped, 1, Len(swapped) - 1),
                  !.size_ = @ - 1]
       ELSE m

\* delete_element without its trailing rebuild_if_needed
pop_element(m, key) ==
    LET p == get_position(m, key, hash_(key))
    IN IF p.second # NotFound
       THEN LET swapped == SwapWithBack(m.hash_table_[p.first + 1], p.second)
                victim == swapped[Len(swapped)]
            IN [m EXCEPT
                  !.elements_ = SelectSeq(@, LAMBDA e : e.id # victim),
                  !.hash_table_[p.first + 1] = SubSeq(swapped, 1, Len(swapped) - 1),
                  !.size_ = @ - 1]
       ELSE m

delete_element(m, key) == rebuild_if_needed(pop_element(m, key))

\* find: the iterator of the entry with this key, or end()
find(m, key) ==
    LET p == get_position(m, key, hash_(key))
    IN IF p.second # NotFound
       THEN m.hash_table_[p.first + 1][p.second + 1]
       ELSE End

\* at that returns a default value for a key that is not there
at_no_throw(m, key) ==
    LET it == find(m, key)
    IN IF it # End
       THEN [thrown |-> "none", value |-> Deref(m, it).second]
       ELSE [thrown |-> "none", value |-> DefaultValue]

\* const ValueType& at(const KeyType& key) const: the value returned, or
\* the exception thrown
at(m, key) ==
    LET it == find(m, key)
    IN IF it # End
       THEN [thrown |-> "none", value |-> Deref(m, it).second]
       ELSE [thrown |-> "out_of_range", value |-> DefaultValue]

\* HashMap(Hash): the default-constructed object
EmptyMap ==
    [capacity_ |-> kDefaultCapacity,
     size_ |-> 0,
     hash_table_ |-> [h \in 1..kDefaultCapacity |-> <<>>],
     elements_ |-> <<>>]

\* the constructor loop run from the end of the range to its start
RECURSIVE fill_from_reversed(_, _, _, _)
fill_from_reversed(t, m, pairs, used) ==
    IF pairs = <<>> THEN m
    ELSE LET last == pairs[Len(pairs)]
         IN fill_from_reversed(t,
                add_element(m, last[1], last[2],
                            FreshId(t, last[1], used \cup Ids(m))),
                SubSeq(pairs, 1, Len(pairs) - 1), used)

\* while (begin != end) { add_element(*begin); begin++; } on the object t
\* that is m so far; used are the addresses of the nodes of other objects
RECURSIVE fill_from(_, _, _, _)
fill_from(t, m, pairs, used) ==
    IF pairs = <<>> THEN m
    ELSE fill_from(t,
             add_element(m, pairs[1][1], pairs[1][2],
                         FreshId(t, pairs[1][1], used \cup Ids(m))),
             Tail(pairs), used)

\* ------------------------------------------------------------ operations
\* The record of a call: thrown is the exception that left the call, args
\* the sequence of pairs given to it, moved the objects that have been the
\* source of a move since their construction.
Op(op, t, key, value, other, found, ret) ==
    [op |-> op, t |-> t, key |-> key, value |-> value, other |-> other,
     found |-> found, ret |-> ret, thrown |-> "none", args |-> <<>>,
     moved |-> {}]

Init ==
    /\ maps = [t \in Tables |-> EmptyMap]
    /\ lastOp = Op("construct", 0, 0, 0, 0, FALSE, End)
    /\ fault = FALSE

\* An operation that runs into undefined behaviour ends the run, leaving
\* object t as m.
Crash(t, m) ==
    /\ fault' = TRUE
    /\ maps' = [maps EXCEPT ![t] = m]

Found(m, key) == get_position(m, key, hash_(key)).second # NotFound

\* void insert(const Element& el) { add_element(el); }
Insert(t, key, value) ==
    /\ ~fault
    /\ LET m == maps[t] IN
       IF Undefined(m, hash_(key))
       THEN Crash(t, m)
       ELSE /\ Found(m, key) \/ m.size_ < MaxSize
            /\ maps' = [maps EXCEPT
                          ![t] = add_element(m, key, value, FreshId(t, key, HeapIds))]
            /\ UNCHANGED fault

\* void erase(const KeyType& el) { delete_element(el); }
Erase(t, key) ==
    /\ ~fault
    /\ LET m == maps[t] IN
       IF Undefined(m, hash_(key))
       THEN Crash(t, m)
       ELSE /\ maps' = [maps EXCEPT ![t] = delete_element(m, key)]
            /\ UNCHANGED fault

\* operator[] whose second lookup takes the bucket of the capacity_ that
\* add_element met
index_lookup_old_capacity(m, key, id) ==
    LET raw_hash == hash_(key)
        m2 == add_element(m, key, DefaultValue, id)
        hash == raw_hash % m.capacity_
        bucket == m2.hash_table_[hash + 1]
        hits == {i \in 1..Len(bucket) : Deref(m2, bucket[i]).first = key}
    IN IF hits = {} THEN End
       ELSE bucket[CHOOSE i \in hits : \A j \in hits : i <= j]

\* The iterator operator[] dereferences: add_element, then the second
\* lookup with the raw hash it returned; End when that lookup finds nothing.
index_lookup(m, key, id) ==
    LET raw_hash == hash_(key)
        m2 == add_element(m, key, DefaultValue, id)
        p == get_position(m2, key, raw_hash)
    IN IF p.second = NotFound THEN End
       ELSE m2.hash_table_[p.first + 1][p.second + 1]

\* ValueType& operator[](const KeyType& key)
OpIndex(t, key) ==
    /\ ~fault
    /\ LET m == maps[t] IN
       IF Undefined(m, hash_(key))
       THEN Crash(t, m)
       ELSE /\ Found(m, key) \/ m.size_ < MaxSize
            /\ LET id == FreshId(t, key, HeapIds)
                   m2 == add_element(m, key, DefaultValue, id)
               IN IF index_lookup(m, key, id) = End
                  THEN Crash(t, m2)
                  ELSE /\ maps' = [maps EXCEPT ![t] = m2]
                       /\ UNCHANGED fault

\* iterator find(const KeyType& key): the table is read, not written
Find(t, key) ==
    /\ ~fault
    /\ IF Undefined(maps[t], hash_(key))
       THEN Crash(t, maps[t])
       ELSE UNCHANGED <<maps, fault>>

\* const ValueType& at(const KeyType& key) const: the table is read, not
\* written, whether the call returns or throws
At(t, key) ==
    /\ ~fault
    /\ IF Undefined(maps[t], hash_(key))
       THEN Crash(t, maps[t])
       ELSE UNCHANGED <<maps, fault>>

\* it->second = value, through the node an iterator denotes
StoreValue(es, id, value) ==
    [i \in 1..Len(es) |->
        IF es[i].id = id THEN [es[i] EXCEPT !.second = value] ELSE es[i]]

\* A write through the mutable iterator find(key) returns, when it is not
\* end(): find(key)->second = value.
Write(t, key, value) ==
    /\ ~fault
    /\ LET m == maps[t] IN
       IF Undefined(m, hash_(key))
       THEN Crash(t, m)
       ELSE /\ find(m, key) # End
            /\ maps' = [u \in Tables |->
                           [maps[u] EXCEPT
                              !.elements_ = StoreValue(@, find(m, key), value)]]
            /\ UNCHANGED fault

\* void clear()
\* clear that leaves capacity_ as it was
clear_keeps_capacity(m) ==
    [m EXCEPT !.elements_ = <<>>,
              !.size_ = 0,
              !.hash_table_ = [h \in 1..kDefaultCapacity |-> <<>>]]

clear(m) ==
    [m EXCEPT !.elements_ = <<>>,
              !.size_ = 0,
              !.hash_table_ = [h \in 1..kDefaultCapacity |-> <<>>],
              !.capacity_ = kDefaultCapacity]

Clear(t) ==
    /\ ~fault
    /\ maps' = [maps EXCEPT ![t] = clear(maps[t])]
    /\ UNCHANGED fault

\* the memberwise copy: the bucket array is copied, not rebuilt
copy_of_shallow(t, m, other, used) ==
    [m EXCEPT !.elements_ = CopyList(t, other.elements_, used),
              !.size_ = other.size_,
              !.hash_table_ = other.hash_table_,
              !.capacity_ = other.capacity_]

\* The copy object t makes of other: elements_ copied into new nodes (used:
\* the addresses taken while the copy is made), size_ copied, the index
\* rebuilt at other's capacity.
copy_of(t, m, other, used) ==
    rebuild([m EXCEPT !.elements_ = CopyList(t, other.elements_, used),
                      !.size_ = other.size_],
            other.capacity_)

\* HashMap& operator=(const HashMap& other): the old nodes of *this are
\* freed after the new list is built.
CopyAssign(d, s) ==
    /\ ~fault
    /\ maps' = [maps EXCEPT ![d] = copy_of(d, maps[d], maps[s], HeapIds)]
    /\ UNCHANGED fault

\* HashMap(const HashMap& other), for an object d whose lifetime starts
\* here (the object d named before is gone, its nodes freed).
CopyConstruct(d, s) ==
    /\ ~fault
    /\ d # s
    /\ maps' = [maps EXCEPT
                  ![d] = copy_of(d, EmptyMap, maps[s], HeapIds \ Ids(maps[d]))]
    /\ UNCHANGED fault

\* HashMap(Iter begin, Iter end, Hash), for an object d whose lifetime
\* starts here: capacity_ and size_ from their member initializers, the
\* bucket array assigned kDefaultCapacity empty buckets, then the loop
RangeConstruct(d, pairs) ==
    /\ ~fault
    /\ maps' = [maps EXCEPT
                  ![d] = fill_from(d,
                             [capacity_ |-> kDefaultCapacity,
                              size_ |-> 0,
                              hash_table_ |-> [h \in 1..kDefaultCapacity |-> <<>>],
                              elements_ |-> <<>>],
                             pairs, HeapIds \ Ids(maps[d]))]
    /\ UNCHANGED fault

\* HashMap(std::initializer_list<Element> init_list, Hash), likewise
ListConstruct(d, init_list) ==
    /\ ~fault
    /\ maps' = [maps EXCEPT
                  ![d] = fill_from(d,
                             [capacity_ |-> kDefaultCapacity,
                              size_ |-> 0,
                              hash_table_ |-> [h \in 1..kDefaultCapacity |-> <<>>],
                              elements_ |-> <<>>],
                             init_list, HeapIds \ Ids(maps[d]))]
    /\ UNCHANGED fault

\* What a move leaves in other: the vector and the list are empty, size_
\* and capacity_ are not written.
moved_from(other) == [other EXCEPT !.hash_table_ = <<>>, !.elements_ = <<>>]

\* HashMap(HashMap&& other), for an object d whose lifetime starts here
MoveConstruct(d, s) ==
    /\ ~fault
    /\ d # s
    /\ maps' = [maps EXCEPT ![d] = maps[s], ![s] = moved_from(maps[s])]
    /\ UNCHANGED fault

\* HashMap& operator=(HashMap&& other).  For other == *this the list comes
\* back through the temporary, and what the vector's self-move-assignment
\* leaves is up to the library: the vector unchanged, or empty.
MoveAssign(d, s) ==
    /\ ~fault
    /\ IF d # s
       THEN maps' = [maps EXCEPT ![d] = maps[s], ![s] = moved_from(maps[s])]
       ELSE \E table \in {maps[d].hash_table_, <<>>} :
                maps' = [maps EXCEPT ![d].hash_table_ = table]
    /\ UNCHANGED fault

\* ---------------------------------------------------------- specifications
\* One object and the operations on it; lastOp keeps the call's arguments,
\* whether the key was found, and the iterator the call returns.
Next ==
    \/ \E key \in Keys, value \in Vals :
          /\ Insert(1, key, value)
          /\ lastOp' = Op("insert", 1, key, value, 0,
                          ~fault' /\ Found(maps[1], key), End)
    \/ \E key \in Keys :
          /\ Erase(1, key)
          /\ lastOp' = Op("erase", 1, key, 0, 0,
                          ~fault' /\ Found(maps[1], key), End)
    \/ \E key \in Keys :
          /\ OpIndex(1, key)
          /\ lastOp' = Op("index", 1, key, 0, 0,
                          ~fault' /\ Found(maps[1], key),
                          IF fault' THEN End
                          ELSE index_lookup(maps[1], key, FreshId(1, key, HeapIds)))
    \/ \E key \in Keys, value \in Vals :
          /\ Write(1, key, value)
          /\ lastOp' = Op("write", 1, key, value, 0, ~fault', End)
    \/ /\ Clear(1)
       /\ lastOp' = Op("clear", 1, 0, 0, 0, FALSE, End)
    \/ \E key \in Keys :
          /\ Find(1, key)
          /\ lastOp' = Op("find", 1, key, 0, 0,
                          ~fault' /\ Found(maps[1], key),
                          IF fault' THEN End ELSE find(maps[1], key))
    \/ \E key \in Keys :
          /\ At(1, key)
          /\ lastOp' = IF fault' THEN Op("at", 1, key, 0, 0, FALSE, End)
                       ELSE [Op("at", 1, key, at(maps[1], key).value, 0,
                                Found(maps[1], key), End)
                               EXCEPT !.thrown = at(maps[1], key).thrown]

Spec == Init /\ [][Next]_vars

\* Two objects, no moves; lastOp keeps the operation and its objects.
NextCopy ==
    \/ \E t \in Tables, key \in PairKeys, value \in Vals :
          Insert(t, key, value) /\ lastOp' = Op("insert", t, 0, 0, 0, FALSE, End)
    \/ \E t \in Tables, key \in PairKeys :
          Erase(t, key) /\ lastOp' = Op("erase", t, 0, 0, 0, FALSE, End)
    \/ \E t \in Tables, key \in PairKeys :
          OpIndex(t, key) /\ lastOp' = Op("index", t, 0, 0, 0, FALSE, End)
    \/ \E t \in Tables, key \in PairKeys, value \in Vals :
          Write(t, key, value) /\ lastOp' = Op("write", t, 0, 0, 0, FALSE, End)
    \/ \E t \in Tables :
          Clear(t) /\ lastOp' = Op("clear", t, 0, 0, 0, FALSE, End)
    \/ \E d \in Tables, s \in Tables :
          CopyAssign(d, s) /\ lastOp' = Op("copy_assign", d, 0, 0, s, FALSE, End)
    \/ \E d \in Tables, s \in Tables :
          CopyConstruct(d, s) /\ lastOp' = Op("copy_construct", d, 0, 0, s, FALSE, End)

SpecCopy == Init /\ [][NextCopy]_vars

\* Two objects that are filled, cleared and moved; lastOp keeps the
\* operation, its objects, and which objects have been moved from.  No move
\* reads a value, so every insert stores ValueType().
NextMove ==
    \/ \E t \in Tables, key \in PairKeys :
          /\ Insert(t, key, DefaultValue)
          /\ lastOp' = [Op("insert", t, 0, 0, 0, FALSE, End)
                          EXCEPT !.moved = lastOp.moved]
    \/ \E t \in Tables, key \in PairKeys :
          /\ Erase(t, key)
          /\ lastOp' = [Op("erase", t, 0, 0, 0, FALSE, End)
                          EXCEPT !.moved = lastOp.moved]
    \/ \E t \in Tables :
          /\ Clear(t)
          /\ lastOp' = [Op("clear", t, 0, 0, 0, FALSE, End)
                          EXCEPT !.moved = lastOp.moved]
    \/ \E d \in Tables, s \in Tables :
          /\ MoveConstruct(d, s)
          /\ lastOp' = [Op("move_construct", d, 0, 0, s, FALSE, End)
                          EXCEPT !.moved = (lastOp.moved \ {d}) \cup {s}]
    \/ \E d \in Tables, s \in Tables :
          /\ MoveAssign(d, s)
          /\ lastOp' = [Op("move_assign", d, 0, 0, s, FALSE, End)
                          EXCEPT !.moved = lastOp.moved \cup {s}]

SpecMove == Init /\ [][NextMove]_vars

\* An empty table and inserts of distinct keys, one by one.
NextScenario ==
    \E key \in 1..ScenarioKeys :
        /\ ~Found(maps[1], key)
        /\ maps' = [maps EXCEPT
                      ![1] = add_element(maps[1], key, DefaultValue,
                                         FreshId(1, key, HeapIds))]
        /\ lastOp' = Op("insert", 1, key, DefaultValue, 0, FALSE, End)
        /\ UNCHANGED fault

SpecScenario == Init /\ [][NextScenario]_vars

\* Object 2, default-constructed, is given pairs by insert, one by one, and
\* lastOp.args keeps them; object 1 is constructed from that sequence of
\* pairs, as a range or as an initializer list.
NextRange ==
    \/ \E key \in Keys, value \in Vals :
          /\ Len(lastOp.args) < MaxSize
          /\ Insert(2, key, value)
          /\ lastOp' = [Op("insert", 2, key, value, 0, FALSE, End)
                          EXCEPT !.args = Append(lastOp.args, <<key, value>>)]
    \/ /\ RangeConstruct(1, lastOp.args)
       /\ lastOp' = [Op("range_construct", 1, 0, 0, 0, FALSE, End)
                       EXCEPT !.args = lastOp.args]
    \/ /\ ListConstruct(1, lastOp.args)
       /\ lastOp' = [Op("list_construct", 1, 0, 0, 0, FALSE, End)
                       EXCEPT !.args = lastOp.args]

SpecRange == Init /\ [][NextRange]_vars

\* ------------------------------------------------------------ properties
\* the positions <<bucket, slot>> of the bucket array
Slots(m) ==
    UNION {{<<h, j>> : j \in 1..Len(m.hash_table_[h])} : h \in 1..Len(m.hash_table_)}

SlotsOf(m, id) == {p \in Slots(m) : m.hash_table_[p[1]][p[2]] = id}

\* every entry of the store is referenced exactly once, in the bucket
\* hash(key) mod capacity, and the buckets hold nothing else
IndexInv(m) ==
    /\ Len(m.hash_table_) = m.capacity_
    /\ Cardinality(Ids(m)) = Len(m.elements_)
    /\ Cardinality(Slots(m)) = Len(m.elements_)
    /\ \A i \in 1..Len(m.elements_) :
          LET e == m.elements_[i]
          IN /\ Cardinality(SlotsOf(m, e.id)) = 1
             /\ \A p \in SlotsOf(m, e.id) : p[1] = (hash_(e.first) % m.capacity_) + 1

\* the (key, value) pairs in iteration order
Pairs(m) == [i \in 1..Len(m.elements_) |-> <<m.elements_[i].first, m.elements_[i].second>>]

\* C1: in every state reached by insert, erase, operator[], clear and copies,
\* size_ is the number of entries of the store and the number of iterators in
\* the buckets, and every entry is referenced exactly once, in the bucket
\* hash(key) mod capacity.
C1_SizeStoreIndexAgree ==
    \A t \in Tables :
        /\ maps[t].size_ = Len(maps[t].elements_)
        /\ maps[t].size_ = Cardinality(Slots(maps[t]))
        /\ IndexInv(maps[t])

\* a copy assignment has just produced a table of two entries that share a
\* bucket, beside a non-empty source
C1_Witness ==
    /\ lastOp.op = "copy_assign"
    /\ lastOp.t # lastOp.other
    /\ Len(maps[lastOp.t].elements_) = 2
    /\ \E h \in 1..Len(maps[lastOp.t].hash_table_) :
          Len(maps[lastOp.t].hash_table_[h]) = 2

\* C2 as stated: inserting 5 distinct keys into an empty table, the capacity
\* at sizes 0..5 is 1, 2, 4, 4, 8, 8.
C2_CapacitySequenceAsStated ==
    maps[1].size_ <= 5 =>
        maps[1].capacity_ = <<1, 2, 4, 4, 8, 8>>[maps[1].size_ + 1]

\* C2 amended: inserting 5 distinct keys into an empty table, the capacity at
\* sizes 0..5 is 1, 2, 4, 8, 16, 16.
C2_CapacitySequence ==
    maps[1].size_ <= 5 =>
        maps[1].capacity_ = <<1, 2, 4, 8, 16, 16>>[maps[1].size_ + 1]

\* the fifth distinct key has been inserted
C2_Witness ==
    /\ lastOp.op = "insert"
    /\ maps[1].size_ = 5
    /\ Len(maps[1].elements_) = 5

\* the entries whose key is not key, in iteration order
Others(m, key) == SelectSeq(m.elements_, LAMBDA e : e.first # key)

\* the value stored at a key that is found
ValueAt(m, key) == Deref(m, find(m, key)).second

\* C3 as stated: insert of a key the table holds changes nothing: size,
\* capacity, bucket array and store are the same after the call.
C3_InsertOfPresentKeyIsNoOp ==
    [][(lastOp'.op = "insert" /\ find(maps[1], lastOp'.key) # End)
          => maps'[1] = maps[1]]_vars

\* C4 as stated: erase of a key the table does not hold changes nothing.
C4_EraseOfAbsentKeyIsNoOp ==
    [][(lastOp'.op = "erase" /\ find(maps[1], lastOp'.key) = End)
          => maps'[1] = maps[1]]_vars

\* C5 as stated: a move from another object leaves the source empty (size 0,
\* nothing to iterate) and gives the destination the source's entries, in
\* order, with its size and capacity.
C5_MoveLeavesSourceEmpty ==
    [][(lastOp'.op \in {"move_construct", "move_assign"} /\ lastOp'.t # lastOp'.other)
          => /\ maps'[lastOp'.other].size_ = 0
             /\ maps'[lastOp'.other].elements_ = <<>>
             /\ maps'[lastOp'.t].elements_ = maps[lastOp'.other].elements_
             /\ maps'[lastOp'.t].size_ = maps[lastOp'.other].size_
             /\ maps'[lastOp'.t].capacity_ = maps[lastOp'.other].capacity_]_vars

\* C6: across an insert, erase or operator[] of another key, and across a
\* write to another key, find(k) keeps returning the same node, with the same
\* key and value; the entries of the other keys stay the same nodes in the
\* same order, whether or not the call rebuilds the bucket array.
C6_ReferencesStayValid ==
    [][lastOp'.op \in {"insert", "erase", "index", "write"}
          => /\ \A k \in Keys \ {lastOp'.key} :
                   find(maps[1], k) # End
                      => /\ find(maps'[1], k) = find(maps[1], k)
                         /\ Deref(maps'[1], find(maps[1], k))
                              = Deref(maps[1], find(maps[1], k))
             /\ Others(maps'[1], lastOp'.key) = Others(maps[1], lastOp'.key)]_vars

\* a second key has just been inserted: the call doubled the capacity and
\* rebuilt the bucket array while the first entry was in the store
C6_Witness ==
    /\ lastOp.op = "insert"
    /\ ~lastOp.found
    /\ Len(maps[1].elements_) = 2
    /\ maps[1].capacity_ >= 4

\* C7: after every insert, erase and operator[], after construction and
\* after clear, size <= capacity / 2, and so size < capacity.
C7_HalfLoad ==
    lastOp.op \in {"construct", "insert", "erase", "index", "clear"}
       => /\ maps[1].size_ <= maps[1].capacity_ \div 2
          /\ maps[1].size_ < maps[1].capacity_

\* an insert has just filled the table to exactly half its capacity
C7_Witness ==
    /\ lastOp.op = "insert"
    /\ ~lastOp.found
    /\ maps[1].size_ = 2
    /\ maps[1].capacity_ = 4

\* C8: after erase(k), find(k) is end(), and every other key that was found
\* before is found at the same node with the same value.
C8_EraseRemovesOnlyItsKey ==
    [][lastOp'.op = "erase"
          => /\ find(maps'[1], lastOp'.key) = End
             /\ \A j \in Keys \ {lastOp'.key} :
                   find(maps[1], j) # End
                      => /\ find(maps'[1], j) = find(maps[1], j)
                         /\ ValueAt(maps'[1], j) = ValueAt(maps[1], j)]_vars

\* a key that was found has just been erased, and a key that shared its
\* bucket before the call (the erase kept the capacity or halved it) is still
\* in the table
C8_Witness ==
    /\ lastOp.op = "erase"
    /\ lastOp.found
    /\ \E j \in Keys \ {lastOp.key} :
          /\ hash_(j) % (2 * maps[1].capacity_)
                = hash_(lastOp.key) % (2 * maps[1].capacity_)
          /\ find(maps[1], j) # End

\* C9: insert(k, v2) into a table that holds k leaves the value at k and the
\* size as they were; insert(k, v1) into a table that does not hold k leaves
\* v1 at k.
C9_FirstWriteWins ==
    [][lastOp'.op = "insert"
          => IF find(maps[1], lastOp'.key) # End
             THEN /\ find(maps'[1], lastOp'.key) = find(maps[1], lastOp'.key)
                  /\ ValueAt(maps'[1], lastOp'.key) = ValueAt(maps[1], lastOp'.key)
                  /\ maps'[1].size_ = maps[1].size_
             ELSE /\ find(maps'[1], lastOp'.key) # End
                  /\ ValueAt(maps'[1], lastOp'.key) = lastOp'.value]_vars

\* a key that is in the table has just been inserted again, with a value
\* other than the one stored
C9_Witness ==
    /\ lastOp.op = "insert"
    /\ lastOp.found
    /\ find(maps[1], lastOp.key) # End
    /\ ValueAt(maps[1], lastOp.key) # lastOp.value

\* C10: a copy has the size, the capacity and the (key, value) pairs, in
\* order, of its source; its buckets reference its own entries, each once, in
\* the bucket hash(key) mod capacity, and none of the source's; the copy
\* leaves the source as it was; and an insert, erase, operator[], write or
\* clear on one object leaves every other object as it was.
C10_CopyIsIndependent ==
    [][/\ lastOp'.op \in {"copy_assign", "copy_construct"}
          => LET copy == maps'[lastOp'.t]
                 source == maps[lastOp'.other]
             IN /\ copy.size_ = source.size_
                /\ copy.capacity_ = source.capacity_
                /\ Pairs(copy) = Pairs(source)
                /\ IndexInv(copy)
                /\ lastOp'.t # lastOp'.other
                      => /\ Ids(copy) \cap Ids(source) = {}
                         /\ maps'[lastOp'.other] = source
       /\ lastOp'.op \in {"insert", "erase", "index", "write", "clear"}
          => \A u \in Tables \ {lastOp'.t} : maps'[u] = maps[u]]_vars

\* a table of two entries, one with a value written to it, has just been
\* copied into another object
C10_Witness ==
    /\ lastOp.op \in {"copy_assign", "copy_construct"}
    /\ lastOp.t # lastOp.other
    /\ Len(maps[lastOp.t].elements_) = 2
    /\ \E i \in 1..2 : maps[lastOp.t].elements_[i].second # DefaultValue
    /\ Pairs(maps[lastOp.t]) = Pairs(maps[lastOp.other])

\* the key is the key of an entry of the store
InStore(m, key) == \E i \in 1..Len(m.elements_) : m.elements_[i].first = key

\* the value of the entry of the store with this key
StoredValue(m, key) ==
    m.elements_[CHOOSE i \in 1..Len(m.elements_) : m.elements_[i].first = key].second

\* C11: at(k) on a table without k throws std::out_of_range, at(k) on a table
\* with k returns the value stored at k and throws nothing; either way the
\* table (size, capacity, store, bucket array) is as before.
C11_AtThrowsOnMissingKey ==
    [][lastOp'.op = "at"
          => /\ maps' = maps
             /\ IF InStore(maps[1], lastOp'.key)
                THEN /\ lastOp'.thrown = "none"
                     /\ lastOp'.value = StoredValue(maps[1], lastOp'.key)
                ELSE lastOp'.thrown = "out_of_range"]_vars

\* at has just thrown on a table that holds other keys
C11_Witness ==
    /\ lastOp.op = "at"
    /\ lastOp.thrown = "out_of_range"
    /\ ~InStore(maps[1], lastOp.key)
    /\ Len(maps[1].elements_) >= 2

\* C12: operator[](k) on a table without k appends the one entry
\* (k, ValueType()) at the end of the store, raises the size by exactly 1 and
\* returns that entry; on a table with k it returns the entry already there,
\* and the size and every stored pair are as before.
C12_IndexInsertsDefaultOnce ==
    [][lastOp'.op = "index"
          => LET m == maps[1]
                 n == maps'[1]
                 k == lastOp'.key
                 ret == lastOp'.ret
             IN /\ ~fault'
                /\ ret \in Ids(n)
                /\ Deref(n, ret).first = k
                /\ IF InStore(m, k)
                   THEN /\ n.size_ = m.size_
                        /\ n.elements_ = m.elements_
                        /\ Deref(n, ret).second = StoredValue(m, k)
                   ELSE /\ n.size_ = m.size_ + 1
                        /\ n.elements_ =
                              Append(m.elements_,
                                     [id |-> ret, first |-> k, second |-> DefaultValue])]_vars

\* operator[] has just appended a default entry behind two older ones
C12_Witness ==
    /\ lastOp.op = "index"
    /\ ~lastOp.found
    /\ Len(maps[1].elements_) = 3
    /\ maps[1].elements_[3] =
          [id |-> lastOp.ret, first |-> lastOp.key, second |-> DefaultValue]
    /\ maps[1].elements_[1].second # DefaultValue

\* the keys in the order begin() .. end() visits them
KeyOrder(m) == [i \in 1..Len(m.elements_) |-> m.elements_[i].first]

\* C13: iteration visits the live entries in the order of their successful
\* insertions: an insert or operator[] of a new key puts it last, one of a
\* present key changes nothing, an erase takes its key out and leaves the
\* others in their order, and this holds across the rebuilds these calls make.
C13_IterationIsInsertionOrder ==
    [][LET m == maps[1]
           n == maps'[1]
           k == lastOp'.key
       IN /\ lastOp'.op \in {"insert", "index"}
             => KeyOrder(n) = IF InStore(m, k) THEN KeyOrder(m)
                              ELSE Append(KeyOrder(m), k)
          /\ lastOp'.op = "erase"
             => KeyOrder(n) = SelectSeq(KeyOrder(m), LAMBDA j : j # k)
          /\ lastOp'.op \in {"find", "at", "write"}
             => KeyOrder(n) = KeyOrder(m)]_vars

\* an erase has left two entries whose insertion order is not the order of
\* their keys nor of their hashes
C13_Witness ==
    /\ lastOp.op = "erase"
    /\ lastOp.found
    /\ Len(maps[1].elements_) = 2
    /\ maps[1].elements_[1].first > maps[1].elements_[2].first
    /\ lastOp.key < maps[1].elements_[1].first

\* C14: find(k) leaves the table as it is and returns the entry of the store
\* with key k when there is one, end() when there is none.
C14_FindReadsOnly ==
    [][lastOp'.op = "find"
          => /\ maps' = maps
             /\ IF InStore(maps[1], lastOp'.key)
                THEN /\ lastOp'.ret \in Ids(maps[1])
                     /\ Deref(maps[1], lastOp'.ret).first = lastOp'.key
                ELSE lastOp'.ret = End]_vars

\* find has returned an entry that is not the first of its bucket
C14_Witness ==
    /\ lastOp.op = "find"
    /\ lastOp.ret # End
    /\ \E p \in SlotsOf(maps[1], lastOp.ret) : p[2] >= 2

\* size_, the store and the bucket array agree
Consistent(m) == m.size_ = Len(m.elements_) /\ IndexInv(m)

\* C15: clear() on a table in any state, that of a moved-from object
\* included, leaves size 0, an empty store, the default capacity 1 and one
\* empty bucket; and a table in which size, store and bucket array agree, as
\* they do after clear(), is kept so by every later insert and erase.
C15_ClearResetsToDefault ==
    [][LET t == lastOp'.t
       IN /\ lastOp'.op = "clear"
             => /\ maps'[t].size_ = 0
                /\ maps'[t].elements_ = <<>>
                /\ maps'[t].capacity_ = kDefaultCapacity
                /\ maps'[t].hash_table_ = << <<>> >>
                /\ Consistent(maps'[t])
          /\ lastOp'.op \in {"insert", "erase"} /\ Consistent(maps[t])
             => ~fault' /\ Consistent(maps'[t])]_vars

\* clear() has just been called on an object that had been moved from, beside
\* a table that holds entries
C15_Witness ==
    /\ lastOp.op = "clear"
    /\ lastOp.t \in lastOp.moved
    /\ \E t \in Tables \ {lastOp.t} : Len(maps[t].elements_) = 2

\* the pairs of a sequence whose key no earlier pair has, in order
RECURSIVE FirstOccurrences(_)
FirstOccurrences(pairs) ==
    IF pairs = <<>> THEN <<>>
    ELSE LET init == SubSeq(pairs, 1, Len(pairs) - 1)
             last == pairs[Len(pairs)]
         IN IF \E j \in 1..Len(init) : init[j][1] = last[1]
            THEN FirstOccurrences(init)
            ELSE Append(FirstOccurrences(init), last)

\* the keys the buckets refer to, bucket by bucket
BucketKeys(m) ==
    [h \in 1..Len(m.hash_table_) |->
        [i \in 1..Len(m.hash_table_[h]) |-> Deref(m, m.hash_table_[h][i]).first]]

\* C16: a table constructed from a sequence of pairs (iterator range or
\* initializer list) has the size, the capacity, the entries and the order of
\* the default-constructed table into which the same pairs were inserted one
\* by one; of the pairs with one key, the first is the one kept.
C16_ConstructionIsRepeatedInsert ==
    lastOp.op \in {"range_construct", "list_construct"}
       => /\ maps[1].size_ = maps[2].size_
          /\ maps[1].capacity_ = maps[2].capacity_
          /\ Pairs(maps[1]) = Pairs(maps[2])
          /\ BucketKeys(maps[1]) = BucketKeys(maps[2])
          /\ Pairs(maps[1]) = FirstOccurrences(lastOp.args)
          /\ Consistent(maps[1])

\* a table constructed from three pairs, the third with the key of the
\* first and another value
C16_Witness ==
    /\ lastOp.op = "list_construct"
    /\ Len(lastOp.args) = 3
    /\ lastOp.args[3][1] = lastOp.args[1][1]
    /\ lastOp.args[3][2] # lastOp.args[1][2]
    /\ lastOp.args[2][1] < lastOp.args[1][1]
    /\ Len(maps[1].elements_) = 2

C18_CapacityWithinLoadBoundsAsStated ==
    lastOp.op \in {"insert", "erase", "index", "clear"}
       => /\ maps[1].capacity_ <= 8 * maps[1].size_
          /\ maps[1].capacity_ >= 2 * maps[1].size_

\* C18: in every state reached by insert, erase, operator[] and clear the
\* capacity is at least 2 times the size, and at most 8 times the size when
\* the table is not empty (an empty table still has a bucket).
C18_CapacityWithinLoadBounds ==
    /\ maps[1].capacity_ >= 2 * maps[1].size_
    /\ maps[1].size_ >= 1 => maps[1].capacity_ <= 8 * maps[1].size_

\* operator[] has found its key in a table of one entry and four buckets
C18_Witness ==
    /\ lastOp.op = "index"
    /\ lastOp.found
    /\ maps[1].size_ = 1
    /\ maps[1].capacity_ = 4

IsPowerOfTwo(n) == \E x \in 0..n : 2 ^ x = n

\* C19 as stated: of every object that has not been moved from, the capacity
\* is a power of two and at least 1, the bucket array has capacity_ buckets,
\* and hash(key) mod capacity_ is the index of one of them for every key.
C19_CapacityIsPowerOfTwoOfBuckets ==
    \A t \in Tables \ lastOp.moved :
        /\ maps[t].capacity_ >= kDefaultCapacity
        /\ IsPowerOfTwo(maps[t].capacity_)
        /\ Len(maps[t].hash_table_) = maps[t].capacity_
        /\ \A key \in Keys :
              (hash_(key) % maps[t].capacity_) + 1 \in DOMAIN maps[t].hash_table_

\* C20: in operator[](k) the lookup after add_element finds k, with the raw
\* hash add_element returned and the capacity add_element left: the call
\* runs into no undefined behaviour and returns an entry of the table whose
\* key is k, also when add_element has rebuilt the bucket array.
C20_IndexSecondLookupFinds ==
    lastOp.op = "index"
       => /\ ~fault
          /\ lastOp.ret # End
          /\ lastOp.ret \in Ids(maps[1])
          /\ Deref(maps[1], lastOp.ret).first = lastOp.key
          /\ \E p \in SlotsOf(maps[1], lastOp.ret) :
                p[1] = (hash_(lastOp.key) % maps[1].capacity_) + 1

\* operator[] has inserted a third key, the rebuild to 8 buckets has moved
\* it to another bucket than the one add_element put it in
C20_Witness ==
    /\ lastOp.op = "index"
    /\ ~lastOp.found
    /\ maps[1].size_ = 3
    /\ maps[1].capacity_ = 8
    /\ hash_(lastOp.key) % 8 # hash_(lastOp.key) % 4

====
